---- MODULE Spec2Model ----
(***************************************************************************)
(* Model of backend/backend_app.py: a file-backed blog post store served   *)
(* over HTTP.  A post is a JSON object, modelled as a function from key    *)
(* names to values; text values are sequences of character codes, so that  *)
(* comparison, lower-casing, stripping and substring search are computed.  *)
(* The backing file is the pair (exists, file).  Every handler is one      *)
(* action; req/resp/prev record the last request, its response and the     *)
(* file contents before it, so that handler contracts are state            *)
(* predicates.  Unhandled Python exceptions are responses with status 500. *)
(***************************************************************************)
EXTENDS Integers, Sequences, FiniteSets, TLC

VARIABLES exists, file, prev, req, resp, pc, snap, cbody, cresp

vars == <<exists, file, prev, req, resp, pc, snap, cbody, cresp>>

(* ------------------------------ bounds --------------------------------- *)
MaxPosts == 3

MaxId == 4

(* ------------------------- program constants --------------------------- *)
DefaultPage == 1

DefaultLimit == 100

SortFields == {"title", "content", "author", "date"}

Directions == {"asc", "desc"}

UpdateFields == {"title", "content"}

(* ------------------------- JSON objects (dict) ------------------------- *)
EmptyObj == [k \in {} |-> 0]

Field(k, opt) == IF opt[1] THEN (k :> opt[2]) ELSE EmptyObj

\* dict.update: keys of e overwrite or extend those of d
DictUpdate(d, e) ==
  [k \in (DOMAIN d) \cup (DOMAIN e) |-> IF k \in DOMAIN e THEN e[k] ELSE d[k]]

Has(d, k) == k \in DOMAIN d

(* ------------------------------ text ----------------------------------- *)
IsSpace(c) == c \in {9, 10, 11, 12, 13, 32}

Lower(s) == [i \in 1..Len(s) |-> IF s[i] \in 65..90 THEN s[i] + 32 ELSE s[i]]

RECURSIVE LStrip(_)
LStrip(s) == IF s # << >> /\ IsSpace(Head(s)) THEN LStrip(Tail(s)) ELSE s

RECURSIVE RStrip(_)
RStrip(s) ==
  IF s # << >> /\ IsSpace(s[Len(s)]) THEN RStrip(SubSeq(s, 1, Len(s) - 1)) ELSE s

Strip(s) == RStrip(LStrip(s))

\* Python's `sub in s` on str
Contains(sub, s) ==
  \E i \in 0..(Len(s) - Len(sub)) : SubSeq(s, i + 1, i + Len(sub)) = sub

\* Python's str ordering: lexicographic by code point
RECURSIVE TextLess(_, _)
TextLess(a, b) ==
  IF b = << >> THEN FALSE
  ELSE IF a = << >> THEN TRUE
  ELSE IF Head(a) # Head(b) THEN Head(a) < Head(b)
  ELSE TextLess(Tail(a), Tail(b))

(* ------------------------------ lists ---------------------------------- *)
Reverse(s) == [i \in 1..Len(s) |-> s[Len(s) + 1 - i]]

Ids(posts) == {posts[i]["id"] : i \in 1..Len(posts)}

MaxOf(S) == CHOOSE m \in S : \A x \in S : x <= m

\* list.remove(x): drops the first element equal to x
RECURSIVE RemoveFirst(_, _)
RemoveFirst(posts, x) ==
  IF posts = << >> THEN << >>
  ELSE IF Head(posts) = x THEN Tail(posts)
  ELSE <<Head(posts)>> \o RemoveFirst(Tail(posts), x)

(* ----------------------------- responses ------------------------------- *)
not_found_error == [status |-> 404]

bad_request_error == [status |-> 400]

\* an exception no handler catches: Flask answers 500
server_error == [status |-> 500]

Ok(status, body) == [status |-> status, body |-> body]

(* ------------------------------- create -------------------------------- *)
validate_post_data(new_post) ==
  /\ Has(new_post, "title") /\ Has(new_post, "content")
  /\ new_post["title"] # << >>
  /\ new_post["content"] # << >>

generate_new_id_len(posts) == Len(posts) + 1

generate_new_id(posts) == MaxOf(Ids(posts)) + 1

NewId(posts) == IF posts # << >> THEN generate_new_id(posts) ELSE 1

\* the record add_new_post appends: new_post.update({"id": new_id})
NewRecord(posts, new_post) == DictUpdate(new_post, [id |-> NewId(posts)])

add_new_post(posts, new_post) == Append(posts, NewRecord(posts, new_post))

(* -------------------------- request bodies ----------------------------- *)
Absent == <<FALSE, 0>>

Some(S) == {<<TRUE, v>> : v \in S}

CreateBodies ==
  { Field("title", t) @@ Field("content", c) @@ Field("id", i) :
      t \in {Absent} \cup Some({<< >>, <<97>>, <<66>>}),
      c \in {Absent} \cup Some({<< >>, <<99>>}),
      i \in {Absent} \cup Some({1}) }

UpdateBodies ==
  { Field("title", t) @@ Field("id", i) @@ Field("views", v) :
      t \in {Absent} \cup Some({<<66>>}),
      i \in {Absent} \cup Some({2}),
      v \in {Absent} \cup Some({7}) }

PostIds == 1..MaxId

(* ------------------------------ handlers ------------------------------- *)
SerialIdle == \A p \in DOMAIN pc : pc[p] = "idle"

ConcUnchanged == UNCHANGED <<pc, snap, cbody, cresp>>

\* POST /api/posts
add_post ==
  \E new_post \in CreateBodies :
    /\ SerialIdle
    /\ Len(file) < MaxPosts
    /\ file # << >> => MaxOf(Ids(file)) < MaxId
    /\ req' = [op |-> "create", body |-> new_post]
    /\ prev' = file
    /\ IF ~validate_post_data(new_post)
         THEN resp' = bad_request_error /\ UNCHANGED file
       ELSE IF ~exists
         THEN resp' = not_found_error /\ UNCHANGED file
       ELSE /\ file' = add_new_post(file, new_post)
            /\ resp' = Ok(201, NewRecord(file, new_post))
    /\ UNCHANGED exists
    /\ ConcUnchanged

find_post_by_id(posts, post_id) ==
  IF post_id \in Ids(posts)
    THEN <<TRUE, posts[CHOOSE i \in 1..Len(posts) :
                   /\ posts[i]["id"] = post_id
                   /\ \A j \in 1..(i - 1) : posts[j]["id"] # post_id]>>
    ELSE Absent

\* DELETE /api/posts/<post_id>
delete_post ==
  \E post_id \in PostIds :
    /\ SerialIdle
    /\ req' = [op |-> "delete", id |-> post_id]
    /\ prev' = file
    /\ IF ~exists
         THEN resp' = not_found_error /\ UNCHANGED file
       ELSE LET post == find_post_by_id(file, post_id) IN
         IF ~post[1]
           \* posts.remove(None) raises ValueError
           THEN resp' = server_error /\ UNCHANGED file
         ELSE /\ file' = RemoveFirst(file, post[2])
              /\ resp' = Ok(200, post_id)
    /\ UNCHANGED exists
    /\ ConcUnchanged

validate_post_data_update(new_post) ==
  \E key \in DOMAIN new_post : key \in UpdateFields

UpdateAt(posts, post_id, new_post) ==
  LET i == CHOOSE i \in 1..Len(posts) :
             /\ posts[i]["id"] = post_id
             /\ \A j \in 1..(i - 1) : posts[j]["id"] # post_id
  IN [posts EXCEPT ![i] = DictUpdate(posts[i], new_post)]

\* PUT /api/posts/<post_id>
update_post ==
  \E post_id \in PostIds, new_post \in UpdateBodies :
    /\ SerialIdle
    /\ req' = [op |-> "update", id |-> post_id, body |-> new_post]
    /\ prev' = file
    /\ IF ~exists
         THEN resp' = not_found_error /\ UNCHANGED file
       ELSE LET post == find_post_by_id(file, post_id) IN
         IF DOMAIN new_post # {} /\ ~validate_post_data_update(new_post)
           THEN resp' = bad_request_error /\ UNCHANGED file
         ELSE IF ~post[1]
           \* None.update(...) raises AttributeError
           THEN resp' = server_error /\ UNCHANGED file
         ELSE /\ file' = UpdateAt(file, post_id, new_post)
              /\ resp' = Ok(200, DictUpdate(post[2], new_post))
    /\ UNCHANGED exists
    /\ ConcUnchanged

(* ------------------------- parameter parsing --------------------------- *)
IsDigit(c) == c \in 48..57

AllDigits(s) == s # << >> /\ \A i \in 1..Len(s) : IsDigit(s[i])

RECURSIVE DigitsVal(_)
DigitsVal(s) ==
  IF s = << >> THEN 0
  ELSE DigitsVal(SubSeq(s, 1, Len(s) - 1)) * 10 + (s[Len(s)] - 48)

\* Python's int(str) on ASCII text without underscores: surrounding whitespace,
\* an optional sign, decimal digits;
\* <<FALSE, 0>> stands for ValueError
ParseInt(s) ==
  LET t == Strip(s)
      signed == t # << >> /\ Head(t) \in {43, 45}
      digits == IF signed THEN Tail(t) ELSE t
  IN IF ~AllDigits(digits) THEN <<FALSE, 0>>
     ELSE IF signed /\ Head(t) = 45 THEN <<TRUE, 0 - DigitsVal(digits)>>
     ELSE <<TRUE, DigitsVal(digits)>>

IsLeap(y) == (y % 4 = 0 /\ y % 100 # 0) \/ y % 400 = 0

DaysIn(y, m) ==
  IF m = 2 THEN (IF IsLeap(y) THEN 29 ELSE 28)
  ELSE IF m \in {4, 6, 9, 11} THEN 30 ELSE 31

\* datetime.strptime(s, "%Y-%m-%d").date() as <<ok, <<year, month, day>>>>;
\* ok = FALSE stands for ValueError
ParseDate(s) ==
  LET dashes == {i \in 1..Len(s) : s[i] = 45} IN
  IF Cardinality(dashes) # 2 THEN <<FALSE, << >>>>
  ELSE
    LET p1 == CHOOSE i \in dashes : \A j \in dashes : i <= j
        p2 == CHOOSE i \in dashes : \A j \in dashes : j <= i
        ys == SubSeq(s, 1, p1 - 1)
        ms == SubSeq(s, p1 + 1, p2 - 1)
        ds == SubSeq(s, p2 + 1, Len(s))
    IN IF ~(AllDigits(ys) /\ AllDigits(ms) /\ AllDigits(ds)
            /\ Len(ys) = 4 /\ Len(ms) <= 2 /\ Len(ds) <= 2)
         THEN <<FALSE, << >>>>
       ELSE LET y == DigitsVal(ys)
                m == DigitsVal(ms)
                d == DigitsVal(ds)
            IN IF y >= 1 /\ m \in 1..12 /\ d \in 1..DaysIn(y, m)
                 THEN <<TRUE, <<y, m, d>>>>
                 ELSE <<FALSE, << >>>>

Param(opt, default) == IF opt[1] THEN ParseInt(opt[2]) ELSE <<TRUE, default>>

\* pagination(): [ok |-> FALSE] is the (Response, 400) tuple of the except branch
pagination(page, limit) ==
  LET pg == Param(page, DefaultPage)
      lm == Param(limit, DefaultLimit)
  IN IF ~pg[1] \/ ~lm[1] THEN [ok |-> FALSE]
     ELSE [ok |-> TRUE,
           start_index |-> (pg[2] - 1) * lm[2],
           end_index |-> (pg[2] - 1) * lm[2] + lm[2]]

(* ------------------------------ slicing -------------------------------- *)
\* Python's clamping of a slice bound for a list of length n
SliceIndex(i, n) ==
  IF i < 0 THEN (IF i + n < 0 THEN 0 ELSE i + n)
  ELSE IF i > n THEN n ELSE i

\* posts[start:end]
PySlice(posts, start, end) ==
  LET lo == SliceIndex(start, Len(posts))
      hi == SliceIndex(end, Len(posts))
  IN IF lo >= hi THEN << >> ELSE SubSeq(posts, lo + 1, hi)

(* ------------------------------ sorting -------------------------------- *)
KeyOf(post, sort) ==
  IF sort = "date" THEN ParseDate(post[sort])[2] ELSE post[sort]

KeyLess(a, b) == TextLess(a, b)

\* list.sort is stable: x goes before the first element whose key is greater
RECURSIVE InsertSorted(_, _, _)
InsertSorted(sorted, x, sort) ==
  IF sorted = << >> THEN <<x>>
  ELSE IF KeyLess(KeyOf(x, sort), KeyOf(Head(sorted), sort))
    THEN <<x>> \o sorted
  ELSE <<Head(sorted)>> \o InsertSorted(Tail(sorted), x, sort)

RECURSIVE StableSort(_, _)
StableSort(posts, sort) ==
  IF posts = << >> THEN << >>
  ELSE InsertSorted(StableSort(SubSeq(posts, 1, Len(posts) - 1), sort),
                    posts[Len(posts)], sort)

PySortedNaive(posts, sort, reverse) ==
  IF reverse THEN Reverse(StableSort(posts, sort)) ELSE StableSort(posts, sort)

\* sorted(posts, key=..., reverse=...): CPython reverses, sorts stably and
\* reverses again, which keeps equal keys in their original order
PySorted(posts, sort, reverse) ==
  IF reverse THEN Reverse(StableSort(Reverse(posts), sort))
  ELSE StableSort(posts, sort)

\* the key function raises KeyError (field missing) or ValueError (bad date)
KeyRaises(post, sort) ==
  \/ ~Has(post, sort)
  \/ sort = "date" /\ ~ParseDate(post[sort])[1]

\* sort_posts: kind "none" is None, "false" is False, "raise" an exception
sort_posts(posts, sort, direction) ==
  LET dir == IF direction[1] THEN direction[2] ELSE "asc" IN
  IF ~sort[1] THEN [kind |-> "none"]
  ELSE IF sort[2] \notin SortFields \/ dir \notin Directions
    THEN [kind |-> "false"]
  ELSE IF \E i \in 1..Len(posts) : KeyRaises(posts[i], sort[2])
    THEN [kind |-> "raise"]
  ELSE [kind |-> "list", posts |-> PySorted(posts, sort[2], dir = "desc")]

(* -------------------------------- list --------------------------------- *)
\* lst[start_index:end_index]; start_index is a Response object after a
\* failed pagination(), and slicing by it raises TypeError
SliceResponse(posts, pg) ==
  IF ~pg.ok THEN server_error
  ELSE Ok(200, PySlice(posts, pg.start_index, pg.end_index))

get_posts_response(posts, present, page, limit, sort, direction) ==
  LET pg == pagination(page, limit)
      sorted_posts == sort_posts(posts, sort, direction)
  IN IF ~present THEN not_found_error
     ELSE IF sorted_posts.kind = "raise" THEN server_error
     ELSE IF sorted_posts.kind = "none" THEN SliceResponse(posts, pg)
     ELSE IF sorted_posts.kind = "false" THEN bad_request_error
     \* `not sorted_posts` is also true of the empty list
     ELSE IF sorted_posts.posts = << >> THEN bad_request_error
     ELSE SliceResponse(sorted_posts.posts, pg)

\* page: absent, "0", "2", "x"
PageParams == {Absent} \cup Some({<<48>>, <<50>>, <<120>>})

\* limit: absent, "-1", "2", " 1", "1.5"
LimitParams == {Absent} \cup Some({<<45, 49>>, <<50>>, <<32, 49>>, <<49, 46, 53>>})

SortParams == {Absent} \cup Some({"title", "author", "date", "id"})

DirectionParams == {Absent} \cup Some(Directions \cup {"up"})

\* GET /api/posts
get_posts ==
  \E page \in PageParams, limit \in LimitParams,
     sort \in SortParams, direction \in DirectionParams :
    /\ SerialIdle
    /\ req' = [op |-> "list", page |-> page, limit |-> limit,
               sort |-> sort, direction |-> direction]
    /\ prev' = file
    /\ resp' = get_posts_response(file, exists, page, limit, sort, direction)
    /\ UNCHANGED <<exists, file>>
    /\ ConcUnchanged

(* ------------------------------- search -------------------------------- *)
get_search_term(title, content, author, date) ==
  IF title[1] THEN <<TRUE, "title", title[2]>>
  ELSE IF content[1] THEN <<TRUE, "content", content[2]>>
  ELSE IF author[1] THEN <<TRUE, "author", author[2]>>
  ELSE IF date[1] THEN <<TRUE, "date", date[2]>>
  ELSE <<FALSE, "", << >>>>

\* search_term.strip().lower() in post[key].lower()
Matches(search_term, text) == Contains(Lower(Strip(search_term)), Lower(text))

RECURSIVE SearchLoop(_, _, _)
SearchLoop(posts, key, search_term) ==
  IF posts = << >> THEN << >>
  ELSE (IF Matches(search_term, Head(posts)[key]) THEN <<Head(posts)>> ELSE << >>)
       \o SearchLoop(Tail(posts), key, search_term)

search_post_response(posts, present, title, content, author, date) ==
  LET term == get_search_term(title, content, author, date) IN
  IF ~present THEN not_found_error
  ELSE IF ~term[1] THEN bad_request_error
  \* post[key] raises KeyError at the first record without the field
  ELSE IF \E i \in 1..Len(posts) : ~Has(posts[i], term[2]) THEN server_error
  ELSE Ok(200, SearchLoop(posts, term[2], term[3]))

TitleTerms == {Absent} \cup Some({<<66>>, <<32, 98>>, <<122>>, << >>})

ContentTerms == {Absent} \cup Some({<<120>>, <<32>>})

AuthorTerms == {Absent} \cup Some({<<97, 108>>, <<108, 32>>})

DateTerms == {Absent} \cup Some({<<45, 48, 54>>})

\* GET /api/posts/search
search_post ==
  \E title \in TitleTerms, content \in ContentTerms,
     author \in AuthorTerms, date \in DateTerms :
    /\ SerialIdle
    /\ req' = [op |-> "search", title |-> title, content |-> content,
               author |-> author, date |-> date]
    /\ prev' = file
    /\ resp' = search_post_response(file, exists, title, content, author, date)
    /\ UNCHANGED <<exists, file>>
    /\ ConcUnchanged

(* --------------------------- initial stores ---------------------------- *)
Post(i, t, c) == [id |-> i, title |-> t, content |-> c]

InitFiles ==
  { << >>,
    <<Post(1, <<97>>, <<99>>)>>,
    <<Post(1, <<97>>, <<99>>), Post(2, <<66>>, <<99>>)>>,
    <<Post(2, <<66>>, <<99>>), Post(1, <<97>>, <<99>>)>> }

Procs == {1, 2}

InitCommon ==
  /\ prev = << >>
  /\ req = [op |-> "none"]
  /\ resp = [status |-> 0]
  /\ pc = [p \in Procs |-> "idle"]
  /\ snap = [p \in Procs |-> << >>]
  /\ cbody = [p \in Procs |-> EmptyObj]
  /\ cresp = [p \in Procs |-> [status |-> 0]]

Init ==
  /\ exists \in BOOLEAN
  /\ file \in InitFiles
  /\ exists = FALSE => file = << >>
  /\ InitCommon

Next == add_post \/ delete_post \/ update_post

Spec == Init /\ [][Next]_vars

(* ------------------- two create requests, interleaved ------------------ *)
\* what a request's add_new_post writes: the list it read plus its record
WrittenPostsMerged(p) == Append(file, NewRecord(snap[p], cbody[p]))

WrittenPosts(p) == add_new_post(snap[p], cbody[p])

\* add_post up to and including posts = read_file()
create_read(p) ==
  \E new_post \in CreateBodies :
    /\ pc[p] = "idle"
    /\ Len(file) < MaxPosts
    /\ file # << >> => MaxOf(Ids(file)) < MaxId
    /\ cbody' = [cbody EXCEPT ![p] = new_post]
    /\ IF ~validate_post_data(new_post)
         THEN /\ cresp' = [cresp EXCEPT ![p] = bad_request_error]
              /\ pc' = [pc EXCEPT ![p] = "done"]
              /\ UNCHANGED snap
       ELSE IF ~exists
         THEN /\ cresp' = [cresp EXCEPT ![p] = not_found_error]
              /\ pc' = [pc EXCEPT ![p] = "done"]
              /\ UNCHANGED snap
       ELSE /\ snap' = [snap EXCEPT ![p] = file]
            /\ pc' = [pc EXCEPT ![p] = "read"]
            /\ UNCHANGED cresp
    /\ UNCHANGED <<exists, file, prev, req, resp>>

\* add_new_post on the list read, its write_file, and the 201 response
create_write(p) ==
  /\ pc[p] = "read"
  /\ file' = WrittenPosts(p)
  /\ cresp' = [cresp EXCEPT ![p] = Ok(201, NewRecord(snap[p], cbody[p]))]
  /\ pc' = [pc EXCEPT ![p] = "done"]
  /\ UNCHANGED <<exists, prev, req, resp, snap, cbody>>

NextConc == \E p \in Procs : create_read(p) \/ create_write(p)

SpecConc == Init /\ [][NextConc]_vars

(* ------------------------ stores for the queries ----------------------- *)
MaxList == 2

\* "b" / "x" / "Al" / "2023-06-08"
Q1 == [id |-> 1, title |-> <<98>>, content |-> <<120>>, author |-> <<65, 108>>,
       date |-> <<50, 48, 50, 51, 45, 48, 54, 45, 48, 56>>]

\* "B" / "x y", no author, no date
Q2 == [id |-> 2, title |-> <<66>>, content |-> <<120, 32, 121>>]

\* "b" / "y" / "al" / "2023-6-7"
Q3 == [id |-> 3, title |-> <<98>>, content |-> <<121>>, author |-> <<97, 108>>,
       date |-> <<50, 48, 50, 51, 45, 54, 45, 55>>]

\* "a b" / "X" / "Hal" / "2023-02-30" (not a calendar date)
Q4 == [id |-> 4, title |-> <<97, 32, 98>>, content |-> <<88>>,
       author |-> <<72, 97, 108>>,
       date |-> <<50, 48, 50, 51, 45, 48, 50, 45, 51, 48>>]

QueryPool == {Q1, Q2, Q3, Q4}

\* the stores of at most MaxList records, ids pairwise distinct
QueryFiles ==
  { s \in UNION {[1..n -> QueryPool] : n \in 0..MaxList} :
      \A i, j \in 1..Len(s) : i # j => s[i] # s[j] }

InitQuery ==
  /\ exists \in BOOLEAN
  /\ file \in QueryFiles
  /\ exists = FALSE => file = << >>
  /\ InitCommon

NextList == get_posts

SpecList == InitQuery /\ [][NextList]_vars

NextSearch == search_post

SpecSearch == InitQuery /\ [][NextSearch]_vars

(* ============================ properties =============================== *)
UniqueIds(posts) ==
  \A i, j \in 1..Len(posts) : i # j => posts[i]["id"] # posts[j]["id"]

ValidCreateBody(b) ==
  /\ "title" \in DOMAIN b /\ "content" \in DOMAIN b
  /\ b["title"] # << >> /\ b["content"] # << >>

ExpectedId(posts) ==
  IF posts = << >> THEN 1
  ELSE (CHOOSE m \in Ids(posts) : \A x \in Ids(posts) : x <= m) + 1

\* C1: a valid create on an existing store answers 201 with a record whose
\* id is (largest id before) + 1, or 1 on the empty store, that keeps the
\* body's other fields, and the store afterwards is the previous store with
\* exactly that record appended at the end.
C1_CreateAppendsNextId ==
  (req.op = "create" /\ exists /\ ValidCreateBody(req.body)) =>
    /\ resp.status = 201
    /\ resp.body["id"] = ExpectedId(prev)
    /\ \A k \in (DOMAIN req.body) \ {"id"} :
         k \in DOMAIN resp.body /\ resp.body[k] = req.body[k]
    /\ DOMAIN resp.body = (DOMAIN req.body) \cup {"id"}
    /\ file = Append(prev, resp.body)

\* a create after a delete: the largest id is not the length, and the body
\* carried an id of its own
C1_Witness ==
  /\ req.op = "create" /\ resp.status = 201
  /\ prev # << >>
  /\ ExpectedId(prev) # Len(prev) + 1
  /\ "id" \in DOMAIN req.body
  /\ req.body["id"] # resp.body["id"]

\* C2: from a store with pairwise distinct ids, no sequence of serialized
\* create, update and delete requests leaves two stored records with the
\* same id.
C2_IdsStayUnique == UniqueIds(file)

\* C3: delete of an id no record carries answers 404 and leaves the store
\* unchanged.
C3_DeleteUnknownIs404 ==
  (req.op = "delete" /\ exists /\ req.id \notin Ids(prev)) =>
    (resp.status = 404 /\ file = prev)

\* C4: update of an id no record carries answers 404 and leaves the store
\* unchanged, whatever JSON object the body is.
C4_UpdateUnknownIs404 ==
  (req.op = "update" /\ exists /\ req.id \notin Ids(prev)) =>
    (resp.status = 404 /\ file = prev)

Unparseable(opt) == opt[1] /\ ~ParseInt(opt[2])[1]

\* C5: a page or limit that is not an integer makes the list operation
\* answer 400, whatever the store holds.
C5_BadPageOrLimitIs400 ==
  (req.op = "list" /\ exists /\ (Unparseable(req.page) \/ Unparseable(req.limit))) =>
    resp.status = 400

CarriesField(posts, f) ==
  \A i \in 1..Len(posts) :
    /\ f \in DOMAIN posts[i]
    /\ f = "date" => ParseDate(posts[i][f])[1]

DirectionOk(opt) == ~opt[1] \/ opt[2] \in {"asc", "desc"}

\* C6: with an existing store, integer page and limit, a recognized sort
\* field that every record carries and a recognized direction, the list
\* operation answers 200, the empty store included.
C6_ValidSortIs200 ==
  ( /\ req.op = "list" /\ exists
    /\ ~Unparseable(req.page) /\ ~Unparseable(req.limit)
    /\ req.sort[1] /\ req.sort[2] \in {"title", "content", "author", "date"}
    /\ DirectionOk(req.direction)
    /\ CarriesField(prev, req.sort[2]) ) =>
    resp.status = 200

\* out is `inp` stably ordered by text field f: as long as inp, in key order
\* (non-decreasing, or non-increasing when desc), and for every key value
\* the records with that key appear in the order they have in inp
StablyOrdered(out, inp, f, desc) ==
  /\ Len(out) = Len(inp)
  /\ \A i, j \in 1..Len(out) :
       i < j => IF desc THEN ~TextLess(out[i][f], out[j][f])
                        ELSE ~TextLess(out[j][f], out[i][f])
  /\ \A n \in 1..Len(inp) :
       LET SameKey(x) == x[f] = inp[n][f]
       IN SelectSeq(out, SameKey) = SelectSeq(inp, SameKey)

IntOf(opt, default) == IF opt[1] THEN ParseInt(opt[2])[2] ELSE default

\* the records at the zero-based positions p, start <= p < end, 0 <= p < n
Window(posts, start, end) ==
  LET lo == IF start < 0 THEN 0 ELSE start
      hi == IF end > Len(posts) THEN Len(posts) ELSE end
  IN IF lo >= hi THEN << >> ELSE SubSeq(posts, lo + 1, hi)

\* C8: the unsorted list operation answers 200 with the records at the
\* positions p with start <= p < end and 0 <= p < n, for every integer page
\* and limit, zero and negative ones included.
C8_PageIsWindow ==
  ( /\ req.op = "list" /\ exists /\ ~req.sort[1]
    /\ ~Unparseable(req.page) /\ ~Unparseable(req.limit) ) =>
    LET start == (IntOf(req.page, DefaultPage) - 1) * IntOf(req.limit, DefaultLimit)
    IN /\ resp.status = 200
       /\ resp.body = Window(prev, start, start + IntOf(req.limit, DefaultLimit))

\* the first present parameter in the order title, content, author, date
ChosenField(r) ==
  IF r.title[1] THEN "title" ELSE IF r.content[1] THEN "content"
  ELSE IF r.author[1] THEN "author" ELSE "date"

ContainsFolded(term, text) == Contains(Lower(term), Lower(text))

\* C9: a search with at least one of title/content/author/date answers 200
\* with exactly the records, in stored order, whose value in the first
\* present field contains the parameter value as a case-insensitive
\* substring, and leaves the store unchanged.
C9_SearchIsSubstringFilter ==
  ( /\ req.op = "search" /\ exists
    /\ (req.title[1] \/ req.content[1] \/ req.author[1] \/ req.date[1]) ) =>
    LET f == ChosenField(req)
        Hit(x) == f \in DOMAIN x /\ ContainsFolded(req[f][2], x[f])
    IN /\ resp.status = 200
       /\ resp.body = SelectSeq(prev, Hit)
       /\ file = prev

LargestId(posts) ==
  IF posts = << >> THEN 0
  ELSE CHOOSE m \in Ids(posts) : \A x \in Ids(posts) : x <= m

\* both requests were answered 201 after reading the same largest id
RacedCreates ==
  /\ pc[1] = "done" /\ pc[2] = "done"
  /\ cresp[1].status = 201 /\ cresp[2].status = 201
  /\ LargestId(snap[1]) = LargestId(snap[2])

\* C10 as stated: two interleaved creates that read the same largest id
\* compute the same new id and leave two records with that id in the store.
C10_RaceDuplicatesInStore ==
  RacedCreates =>
    /\ cresp[1].body["id"] = cresp[2].body["id"]
    /\ ~UniqueIds(file)

\* C10 as amended: two interleaved creates that read the same largest id
\* are both answered 201 with the same new id, but the later whole-file
\* write replaces the earlier one: the store holds the list read plus one of
\* the two records only, and its ids stay pairwise distinct.
C10_RaceLosesOneCreate ==
  RacedCreates =>
    /\ cresp[1].body["id"] = cresp[2].body["id"]
    /\ snap[1] = snap[2]
    /\ \E p \in Procs : file = Append(snap[p], cresp[p].body)
    /\ UniqueIds(file)

\* the two raced creates carried different posts, and one of them is gone
C10_Witness ==
  /\ RacedCreates
  /\ cresp[1].body # cresp[2].body
  /\ \E p \in Procs : \A i \in 1..Len(file) : file[i] # cresp[p].body

====
